---- MODULE Spec2Model ----
(***************************************************************************)
(* A model of doc_to_audio.py: the text normaliser, the chunk splitter,    *)
(* the per-chunk speech synthesiser with its retry loop, the audio         *)
(* assembler, and the Streamlit script that drives them and keeps the      *)
(* finished audiobook in session state.                                    *)
(*                                                                         *)
(* A Python str is a sequence of one-character strings.  An audio segment  *)
(* is a sequence of frames; the frames of the segment synthesised for      *)
(* chunk number i all carry the value i.                                   *)
(***************************************************************************)
EXTENDS Integers, Sequences, FiniteSets, TLC

VARIABLES
    mp3_audio,       \* st.session_state.mp3_audio
    audio_filename,  \* st.session_state.audio_filename
    pc,              \* where the script run is; "done" once it is over
    input_method,    \* the sidebar's input source of the current (last) run
    docs,            \* history: per extracted document, whether its text was blank
    raw_text,        \* raw_text of the upload and the URL branch
    errors,          \* the st.error messages of the current (last) run
    presented,       \* what the final step handed to st.audio / st.download_button
    all_text,        \* the text handed to convert_text_to_mp3_chunked / the splitter
    chunk_size,      \* max_chunk_size of the _get_text_chunks call
    text_chunks,     \* text_chunks
    idx,             \* 1-based position of the chunk being synthesised
    combined_audio,  \* combined_audio
    skipped,         \* positions of the chunks the "Skipping a chunk" warning named
    results,         \* history: what _convert_chunk_to_audio returned, per chunk
    attempt,         \* the loop variable of _convert_chunk_to_audio
    delay,           \* delay
    sleeps,          \* history: the arguments of time.sleep for the current chunk
    responses,       \* history: what the voice service answered for the current chunk
    chunk_audio,     \* the value _convert_chunk_to_audio returned
    raised,          \* the exception _convert_chunk_to_audio let escape
    source_name      \* the locals the audiobook's file name is built from

vars == <<mp3_audio, audio_filename, pc, input_method, docs, raw_text, errors,
          presented, all_text, chunk_size, text_chunks, idx, combined_audio,
          skipped, results, attempt, delay, sleeps, responses, chunk_audio, raised,
          source_name>>

----------------------------------------------------------------------------
(* Bounds of the model.                                                    *)

MaxLen == 4        \* longest extracted text of an upload / URL run, and of a splitter input
MaxLetterLen == 1  \* longest extracted text of one shareholder letter
MaxYears == 2      \* how many years, from min_available_year on, the user can pick
MaxM == 3          \* largest max_chunk_size handed to the splitter on its own

----------------------------------------------------------------------------
(* Characters and texts.                                                   *)

NL == "\n"

\* The characters extracted texts are made of: a letter, a blank, a newline
\* and two of the decorative characters.
Alphabet == {"a", " ", NL, "-", "="}

\* The characters a letter's extracted text is made of.
LetterAlphabet == {"a", " ", NL}

TextsOver(A, n) == UNION {[1..k -> A] : k \in 0..n}

\* What \s of re and str.strip() take for whitespace, among the characters used.
Whitespace == {" ", NL}

\* The character class [-=_*] of clean_and_prepare_text.
DecorClass == {"-", "=", "_", "*"}

RECURSIVE Concat(_)
Concat(ss) == IF ss = <<>> THEN <<>> ELSE Head(ss) \o Concat(Tail(ss))

\* How many characters of class C follow each other in s from position i on.
RECURSIVE RunLen(_, _, _)
RunLen(s, i, C) ==
    IF i > Len(s) \/ s[i] \notin C THEN 0 ELSE 1 + RunLen(s, i + 1, C)

\* str.strip(): s without its leading and trailing whitespace.
Strip(s) ==
    LET inner == {i \in 1..Len(s) : s[i] \notin Whitespace}
    IN  IF inner = {} THEN <<>>
        ELSE LET lo == CHOOSE i \in inner : \A j \in inner : i <= j
                 hi == CHOOSE i \in inner : \A j \in inner : i >= j
             IN  SubSeq(s, lo, hi)

\* str.split('\n'): the pieces between the newlines, empty ones included.
RECURSIVE SplitLines(_)
SplitLines(s) ==
    LET nls == {i \in 1..Len(s) : s[i] = NL}
    IN  IF nls = {} THEN <<s>>
        ELSE LET n == CHOOSE i \in nls : \A j \in nls : i <= j
             IN  <<SubSeq(s, 1, n - 1)>> \o SplitLines(SubSeq(s, n + 1, Len(s)))

----------------------------------------------------------------------------
(* clean_and_prepare_text.                                                 *)

\* The {3,} of the first pattern.
MinDecorRun == 3

DecorRunFrom_short(s, i) == RunLen(s, i, DecorClass) >= MinDecorRun + 1

\* Whether the pattern [-=_*]{3,} matches at position i.
DecorRunFrom(s, i) == RunLen(s, i, DecorClass) >= MinDecorRun

\* re.sub(r'[-=_*]{3,}', '', text), from position i on: a match is greedy,
\* and the scan goes on behind it.
RECURSIVE SubDecor(_, _)
SubDecor(s, i) ==
    IF i > Len(s) THEN <<>>
    ELSE IF DecorRunFrom(s, i) THEN SubDecor(s, i + RunLen(s, i, DecorClass))
    ELSE <<s[i]>> \o SubDecor(s, i + 1)

\* The end of the greedy match of \n\s*\n at position i, or 0 when there is none.
BlankLineEnd(s, i) ==
    IF i > Len(s) \/ s[i] # NL THEN 0
    ELSE LET w == RunLen(s, i + 1, Whitespace)
             ends == {j \in (i + 1)..(i + w) : s[j] = NL}
         IN  IF ends = {} THEN 0
             ELSE CHOOSE j \in ends : \A k \in ends : j >= k

\* re.sub(r'\n\s*\n', '\n', text), from position i on.
RECURSIVE SubBlankLines(_, _)
SubBlankLines(s, i) ==
    IF i > Len(s) THEN <<>>
    ELSE IF BlankLineEnd(s, i) # 0
         THEN <<NL>> \o SubBlankLines(s, BlankLineEnd(s, i) + 1)
    ELSE <<s[i]>> \o SubBlankLines(s, i + 1)

\* text.replace('\n', ' ')
ReplaceNewlines(s) == [i \in 1..Len(s) |-> IF s[i] = NL THEN " " ELSE s[i]]

clean_and_prepare_text(text) ==
    ReplaceNewlines(SubBlankLines(SubDecor(text, 1), 1))

----------------------------------------------------------------------------
(* _get_text_chunks.                                                       *)

max_chunk_size == 3000

\* paragraphs = [p.strip() for p in text.split('\n') if p.strip()]
Paragraphs(text) ==
    LET lines == SplitLines(text)
    IN  SelectSeq([k \in 1..Len(lines) |-> Strip(lines[k])], LAMBDA p : p # <<>>)

FitsChunk_never_split(para, M) == TRUE

\* if len(para) <= max_chunk_size
FitsChunk(para, M) == Len(para) <= M

SliceStarts_step_too_far(para, M) == {i \in 0..(Len(para) - 1) : i % (M + 1) = 0}

\* range(0, len(para), max_chunk_size)
SliceStarts(para, M) == {i \in 0..(Len(para) - 1) : i % M = 0}

\* [para[i:i + max_chunk_size] for i in range(0, len(para), max_chunk_size)]
Slices(para, M) ==
    LET starts == SliceStarts(para, M)
        nth(k) == CHOOSE i \in starts : Cardinality({j \in starts : j < i}) = k - 1
        upto(i) == IF i + M < Len(para) THEN i + M ELSE Len(para)
    IN  [k \in 1..Cardinality(starts) |-> SubSeq(para, nth(k) + 1, upto(nth(k)))]

ChunksOf(para, M) == IF FitsChunk(para, M) THEN <<para>> ELSE Slices(para, M)

_get_text_chunks(text, M) ==
    LET paragraphs == Paragraphs(text)
    IN  Concat([k \in 1..Len(paragraphs) |-> ChunksOf(paragraphs[k], M)])

----------------------------------------------------------------------------
(* Values.                                                                 *)

\* A session_state key that was never set, Python's None, and a value.
\* An audio value's data are its frames.
NoKey == [tag |-> "nokey", data |-> <<>>]
None == [tag |-> "none", data |-> <<>>]
Some(frames) == [tag |-> "some", data |-> frames]

\* A file name "<stem><years joined by ->.mp3", and the two ways of having none.
NoKeyName == [tag |-> "nokey", stem |-> "", years |-> <<>>]
NoName == [tag |-> "none", stem |-> "", years |-> <<>>]
Mp3Name(stem, years) == [tag |-> "some", stem |-> stem, years |-> years]

\* AudioSegment.empty()
EmptyAudio == <<>>

\* bool(segment): pydub's AudioSegment has a length, so a segment without
\* frames is false, like None.
Truthy(audio) == audio.tag = "some" /\ Len(audio.data) > 0

\* The segment decoded from the service's answer for chunk number i: a decoded
\* MP3 stream holds at least one frame.
Segment(i) == <<i>>

----------------------------------------------------------------------------
(* The section header of a letter.                                         *)

DigitChar(d) == <<"0", "1", "2", "3", "4", "5", "6", "7", "8", "9">>[d + 1]

\* str(year) of a year >= 0
RECURSIVE Str(_)
Str(n) == IF n < 10 THEN <<DigitChar(n)>> ELSE Str(n \div 10) \o <<DigitChar(n % 10)>>

\* f"\n\n--- Berkshire Hathaway Shareholder Letter: {year} ---\n\n"
Header(year) ==
    <<NL, NL, "-", "-", "-", " ">>
    \o <<"B", "e", "r", "k", "s", "h", "i", "r", "e", " ">>
    \o <<"H", "a", "t", "h", "a", "w", "a", "y", " ">>
    \o <<"S", "h", "a", "r", "e", "h", "o", "l", "d", "e", "r", " ">>
    \o <<"L", "e", "t", "t", "e", "r", ":", " ">>
    \o Str(year)
    \o <<" ", "-", "-", "-", NL, NL>>

min_available_year == 1977
max_available_year == 2024

\* The years the user picks from.
YearChoices ==
    {y \in min_available_year..max_available_year : y < min_available_year + MaxYears}

\* What an extractor returns: the document's text, or "" after st.error.
Extractions(T) ==
    {[failed |-> FALSE, text |-> t] : t \in T} \cup {[failed |-> TRUE, text |-> <<>>]}

\* The years of a set in ascending order: sorted(links, key=lambda x: x[0])
RECURSIVE Sorted(_)
Sorted(S) ==
    IF S = {} THEN <<>>
    ELSE LET m == CHOOSE y \in S : \A z \in S : y <= z
         IN  <<m>> \o Sorted(S \ {m})

\* all_text after the loop over the letters: each letter's header, then its
\* cleaned text.
LettersText(years, letter) ==
    Concat([k \in 1..Len(years) |->
              Header(years[k]) \o clean_and_prepare_text(letter[years[k]].text)])

\* if all_text.strip()
HasText(text) == Strip(text) # <<>>

----------------------------------------------------------------------------
(* _convert_chunk_to_audio.                                                *)

retries == 3
initial_delay == 5
TooManyRequests == 429

\* What one gTTS call can end in: audio, an HTTPError with a status code, or
\* an exception of another class.
ServiceAnswers ==
    {[kind |-> "audio", status |-> 200]}
    \cup {[kind |-> "HTTPError", status |-> c] : c \in {TooManyRequests, 500}}
    \cup {[kind |-> "Exception", status |-> 0]}

\* except requests.exceptions.HTTPError
IsHTTPError(answer) == answer.kind = "HTTPError"

IsRateLimit_any_status(answer) == TRUE

\* if e.response.status_code == 429
IsRateLimit(answer) == answer.status = TooManyRequests

NextDelay_constant(d) == d

\* delay *= 2
NextDelay(d) == d * 2

HasNextAttempt_one_more(done) == done <= retries

\* for attempt in range(retries), with `done` iterations behind
HasNextAttempt(done) == done < retries

session == <<mp3_audio, audio_filename>>
runvars == <<input_method, docs, raw_text, errors, presented>>
convvars == <<all_text, chunk_size, text_chunks, idx, combined_audio, skipped, results,
              source_name>>
chunkvars == <<attempt, delay, sleeps, responses, chunk_audio, raised>>

\* The locals of _convert_chunk_to_audio as a call begins.
ChunkBegin ==
    /\ attempt' = 0
    /\ delay' = initial_delay
    /\ sleeps' = <<>>
    /\ responses' = <<>>
    /\ chunk_audio' = None
    /\ raised' = "none"

\* One iteration of the retry loop: the gTTS call and what follows from its
\* answer.  `attempt` counts the iterations behind.
Attempt ==
    /\ pc = "synth"
    /\ \E answer \in ServiceAnswers :
         /\ responses' = Append(responses, answer)
         /\ IF answer.kind = "audio"
            THEN /\ chunk_audio' = Some(Segment(idx))
                 /\ pc' = "returned"
                 /\ UNCHANGED <<attempt, delay, sleeps, raised>>
            ELSE IF IsHTTPError(answer) /\ IsRateLimit(answer)
            THEN /\ sleeps' = Append(sleeps, delay)
                 /\ delay' = NextDelay(delay)
                 /\ attempt' = attempt + 1
                 /\ pc' = IF HasNextAttempt(attempt + 1) THEN "synth" ELSE "returned"
                 /\ UNCHANGED <<chunk_audio, raised>>
            ELSE /\ raised' = answer.kind
                 /\ pc' = "raised"
                 /\ UNCHANGED <<attempt, delay, sleeps, chunk_audio>>
    /\ UNCHANGED <<session, runvars, convvars>>

----------------------------------------------------------------------------
(* convert_text_to_mp3_chunked.                                            *)

Accumulate_prepend(audio, segment) == segment \o audio

\* combined_audio += chunk_audio
Accumulate(audio, segment) == audio \o segment

WarnSkipped_silently(warned, i) == warned

\* st.warning(f"Skipping a chunk of {len(chunk)} characters ...")
WarnSkipped(warned, i) == Append(warned, i)

\* The call of convert_text_to_mp3_chunked(text, ...) up to the first chunk's
\* synthesis, or to its return when there is nothing to synthesise; `name`
\* is the file name the caller stores with the result.
ConvertCall(text, name) ==
    LET chunks == _get_text_chunks(text, max_chunk_size)
    IN  /\ all_text' = text
        /\ source_name' = name
        /\ idx' = 1
        /\ combined_audio' = EmptyAudio
        /\ skipped' = <<>>
        /\ results' = <<>>
        /\ ChunkBegin
        /\ IF ~HasText(text)
           THEN /\ chunk_size' = 0
                /\ text_chunks' = <<>>
                /\ mp3_audio' = None
                /\ audio_filename' = name
                /\ pc' = "final"
           ELSE /\ chunk_size' = max_chunk_size
                /\ text_chunks' = chunks
                /\ IF chunks = <<>>
                   THEN /\ mp3_audio' = Some(EmptyAudio)
                        /\ audio_filename' = name
                        /\ pc' = "final"
                   ELSE /\ pc' = "synth"
                        /\ UNCHANGED session

\* The loop body after _convert_chunk_to_audio returned, and what follows: the
\* next chunk's call, or after the last chunk the export and the caller's two
\* assignments to session state.
ChunkReturned ==
    /\ pc = "returned"
    /\ results' = Append(results, chunk_audio)
    /\ IF Truthy(chunk_audio)
       THEN /\ combined_audio' = Accumulate(combined_audio, chunk_audio.data)
            /\ skipped' = skipped
       ELSE /\ combined_audio' = combined_audio
            /\ skipped' = WarnSkipped(skipped, idx)
    /\ IF idx < Len(text_chunks)
       THEN /\ idx' = idx + 1
            /\ ChunkBegin
            /\ pc' = "synth"
            /\ UNCHANGED session
       ELSE /\ mp3_audio' = Some(combined_audio')
            /\ audio_filename' = source_name
            /\ pc' = "final"
            /\ UNCHANGED <<idx, chunkvars>>
    /\ UNCHANGED <<runvars, all_text, chunk_size, text_chunks, source_name>>

\* An exception leaves _convert_chunk_to_audio and convert_text_to_mp3_chunked.
\* Only the URL branch calls them inside a try: an HTTPError is a
\* RequestException there, anything else an Exception.  Elsewhere the script
\* run ends with the exception.
ChunkRaised ==
    /\ pc = "raised"
    /\ IF input_method = "From a URL"
       THEN /\ errors' = errors \cup {IF raised = "HTTPError"
                                      THEN "Failed to fetch or access URL"
                                      ELSE "An unexpected error occurred during processing"}
            /\ pc' = "final"
       ELSE /\ errors' = errors \cup {"uncaught exception"}
            /\ pc' = "done"
    /\ UNCHANGED <<session, input_method, docs, raw_text, presented, convvars, chunkvars>>

----------------------------------------------------------------------------
(* The script: one run of it per user interaction.                         *)

Methods == {"Berkshire Hathaway Letters", "Upload a File", "From a URL"}

NotPresented == [audio |-> None, name |-> NoName]

\* The files st.file_uploader hands over: a name and the type the browser
\* declared.
UploadedFiles ==
    {[stem |-> "book", type |-> "application/pdf"],
     [stem |-> "notes", type |-> "text/plain"],
     [stem |-> "data", type |-> "application/octet-stream"]}

\* A script run begins: no local is bound yet.
NoLocals ==
    /\ input_method = "none"
    /\ docs = <<>>
    /\ raw_text = <<>>
    /\ errors = {}
    /\ presented = NotPresented
    /\ all_text = <<>>
    /\ chunk_size = 0
    /\ text_chunks = <<>>
    /\ idx = 0
    /\ combined_audio = EmptyAudio
    /\ skipped = <<>>
    /\ results = <<>>
    /\ attempt = 0
    /\ delay = initial_delay
    /\ sleeps = <<>>
    /\ responses = <<>>
    /\ chunk_audio = None
    /\ raised = "none"
    /\ source_name = NoName

Init ==
    /\ pc = "start"
    /\ mp3_audio = NoKey
    /\ audio_filename = NoKeyName
    /\ NoLocals

\* if 'mp3_audio' not in st.session_state: ... = None, and the same for
\* audio_filename.
SessionInit ==
    /\ pc = "start"
    /\ mp3_audio' = IF mp3_audio.tag = "nokey" THEN None ELSE mp3_audio
    /\ audio_filename' = IF audio_filename.tag = "nokey" THEN NoName ELSE audio_filename
    /\ pc' = "branch"
    /\ UNCHANGED <<runvars, convvars, chunkvars>>

\* A run in which no generate button is pressed (or no file is uploaded, or
\* the URL field is empty): only the widgets are drawn.
NoGenerate ==
    /\ pc = "branch"
    /\ input_method' \in Methods
    /\ pc' = "final"
    /\ UNCHANGED <<session, docs, raw_text, errors, presented, convvars, chunkvars>>

\* if start_year > end_year: st.error(...)
BerkshireBadRange ==
    /\ pc = "branch"
    /\ \E start_year \in YearChoices, end_year \in YearChoices : start_year > end_year
    /\ input_method' = "Berkshire Hathaway Letters"
    /\ errors' = {"Start year cannot be after end year."}
    /\ pc' = "final"
    /\ UNCHANGED <<session, docs, raw_text, presented, convvars, chunkvars>>

\* The generate button with the index page not fetched or not parsed:
\* st.error and st.stop().
BerkshireIndexFailed ==
    /\ pc = "branch"
    /\ input_method' = "Berkshire Hathaway Letters"
    /\ \E e \in {"Failed to fetch URL", "An unexpected error occurred"} : errors' = {e}
    /\ pc' = "done"
    /\ UNCHANGED <<session, docs, raw_text, presented, convvars, chunkvars>>

\* if not links: st.error(...); st.stop()
BerkshireNoLinks ==
    /\ pc = "branch"
    /\ input_method' = "Berkshire Hathaway Letters"
    /\ errors' = {"Could not find any letter links for the selected range."}
    /\ pc' = "done"
    /\ UNCHANGED <<session, docs, raw_text, presented, convvars, chunkvars>>

\* Some letter is not fetched: the RequestException handler's st.error and
\* st.stop().  The letters extracted before it are dropped with all_text.
BerkshireLetterFailed ==
    /\ pc = "branch"
    /\ input_method' = "Berkshire Hathaway Letters"
    /\ errors' = {"Failed to fetch URL"}
    /\ pc' = "done"
    /\ UNCHANGED <<session, docs, raw_text, presented, convvars, chunkvars>>

\* The generate button with start_year <= end_year, the years of `linked`
\* found on the index page and every letter fetched; letter[y] is what the
\* extractor made of the letter of year y.
BerkshireGenerate ==
    /\ pc = "branch"
    /\ \E start_year \in YearChoices, end_year \in YearChoices :
         /\ start_year <= end_year
         /\ \E linked \in SUBSET (start_year..end_year) :
              /\ linked # {}
              /\ \E letter \in [linked -> Extractions(TextsOver(LetterAlphabet, MaxLetterLen))] :
                   LET years == Sorted(linked)
                       text == LettersText(years, letter)
                   IN  /\ input_method' = "Berkshire Hathaway Letters"
                       /\ docs' = [k \in 1..Len(years) |-> ~HasText(letter[years[k]].text)]
                       /\ raw_text' = <<>>
                       /\ errors' = IF \E y \in linked : letter[y].failed
                                    THEN {"Error reading the letter"} ELSE {}
                       /\ IF HasText(text)
                          THEN ConvertCall(text, Mp3Name("Berkshire_Hathaway_Letters_",
                                                         <<start_year, end_year>>))
                          ELSE /\ all_text' = text
                               /\ pc' = "final"
                               /\ UNCHANGED <<session, chunk_size, text_chunks, idx,
                                              combined_audio, skipped, results,
                                              source_name, chunkvars>>
    /\ UNCHANGED presented

\* What both single-document branches do with the extractor's result.
SingleDocument(method, extraction, name) ==
    LET cleaned == clean_and_prepare_text(extraction.text)
    IN  /\ input_method' = method
        /\ docs' = <<~HasText(extraction.text)>>
        /\ raw_text' = extraction.text
        /\ IF HasText(cleaned)
           THEN /\ errors' = IF extraction.failed THEN {"Error reading the document"} ELSE {}
                /\ ConvertCall(cleaned, name)
           ELSE /\ errors' = (IF extraction.failed THEN {"Error reading the document"} ELSE {})
                              \cup {"Could not extract any text from the document."}
                /\ all_text' = cleaned
                /\ pc' = "final"
                /\ UNCHANGED <<session, chunk_size, text_chunks, idx, combined_audio,
                               skipped, results, source_name, chunkvars>>
        /\ UNCHANGED presented

\* The generate button of the upload branch.  A file of neither declared type
\* gives raw_text = "".
UploadGenerate ==
    /\ pc = "branch"
    /\ \E file \in UploadedFiles, extraction \in Extractions(TextsOver(Alphabet, MaxLen)) :
         SingleDocument("Upload a File",
                        IF file.type \in {"application/pdf", "text/plain"}
                        THEN extraction ELSE [failed |-> FALSE, text |-> <<>>],
                        Mp3Name(file.stem, <<>>))

\* The generate button of the URL branch with the URL not fetched: the
\* RequestException handler's st.error; the script goes on to its final step.
UrlFetchFailed ==
    /\ pc = "branch"
    /\ input_method' = "From a URL"
    /\ errors' = {"Failed to fetch or access URL"}
    /\ pc' = "final"
    /\ UNCHANGED <<session, docs, raw_text, presented, convvars, chunkvars>>

\* The generate button of the URL branch with the URL fetched.
UrlGenerate ==
    /\ pc = "branch"
    /\ \E extraction \in Extractions(TextsOver(Alphabet, MaxLen)) :
         SingleDocument("From a URL", extraction, Mp3Name("audiobook_from_url", <<>>))

ClearedAudio_kept(audio) == audio

\* st.session_state.mp3_audio = None
ClearedAudio(audio) == None

\* The final step: present the stored audiobook, then clear it.
FinalStep ==
    /\ pc = "final"
    /\ IF mp3_audio # None
       THEN /\ presented' = [audio |-> mp3_audio, name |-> audio_filename]
            /\ mp3_audio' = ClearedAudio(mp3_audio)
            /\ audio_filename' = NoName
       ELSE UNCHANGED <<session, presented>>
    /\ pc' = "done"
    /\ UNCHANGED <<input_method, docs, raw_text, errors, convvars, chunkvars>>

\* The locals of the run that is over are gone.
DropLocals ==
    /\ input_method' = "none"
    /\ docs' = <<>>
    /\ raw_text' = <<>>
    /\ errors' = {}
    /\ presented' = NotPresented
    /\ all_text' = <<>>
    /\ chunk_size' = 0
    /\ text_chunks' = <<>>
    /\ idx' = 0
    /\ combined_audio' = EmptyAudio
    /\ skipped' = <<>>
    /\ results' = <<>>
    /\ source_name' = NoName
    /\ ChunkBegin

\* The next interaction in the same browser session: the script runs again
\* from its top, with session state as the last run left it.
Rerun ==
    /\ pc = "done"
    /\ pc' = "start"
    /\ DropLocals
    /\ UNCHANGED session

\* The page is loaded anew: a new session, with an empty session state.
Reload ==
    /\ pc = "done"
    /\ pc' = "start"
    /\ mp3_audio' = NoKey
    /\ audio_filename' = NoKeyName
    /\ DropLocals

Next ==
    \/ SessionInit
    \/ NoGenerate
    \/ BerkshireBadRange
    \/ BerkshireIndexFailed
    \/ BerkshireNoLinks
    \/ BerkshireLetterFailed
    \/ BerkshireGenerate
    \/ UploadGenerate
    \/ UrlFetchFailed
    \/ UrlGenerate
    \/ Attempt
    \/ ChunkReturned
    \/ ChunkRaised
    \/ FinalStep
    \/ Rerun
    \/ Reload

Spec == Init /\ [][Next]_vars

\* Inside _convert_chunk_to_audio nothing but the loop runs: a gTTS call
\* ends, with audio or with an exception, and time.sleep returns.
FairSpec == Spec /\ WF_vars(Attempt)

----------------------------------------------------------------------------
(* The splitter on its own, with every maximum size from 1 to MaxM.        *)

SplitInit ==
    /\ pc = "split"
    /\ all_text \in TextsOver(Alphabet, MaxLen)
    /\ chunk_size \in 1..MaxM
    /\ mp3_audio = NoKey
    /\ audio_filename = NoKeyName
    /\ input_method = "none"
    /\ docs = <<>>
    /\ raw_text = <<>>
    /\ errors = {}
    /\ presented = NotPresented
    /\ text_chunks = <<>>
    /\ idx = 0
    /\ combined_audio = EmptyAudio
    /\ skipped = <<>>
    /\ results = <<>>
    /\ attempt = 0
    /\ delay = initial_delay
    /\ sleeps = <<>>
    /\ responses = <<>>
    /\ chunk_audio = None
    /\ raised = "none"
    /\ source_name = NoName

Split ==
    /\ pc = "split"
    /\ text_chunks' = _get_text_chunks(all_text, chunk_size)
    /\ pc' = "chunked"
    /\ UNCHANGED <<session, runvars, all_text, chunk_size, idx, combined_audio, skipped,
                   results, source_name, chunkvars>>

SplitNext == Split

SplitSpec == SplitInit /\ [][SplitNext]_vars

----------------------------------------------------------------------------
(* The claims.                                                             *)

RateLimited == [kind |-> "HTTPError", status |-> 429]
Audio == [kind |-> "audio", status |-> 200]

\* The service answered rate-limit to each of the calls made for the chunk.
OnlyRateLimited == \A j \in 1..Len(responses) : responses[j] = RateLimited

\* An audiobook came out of the run: it is stored, or was presented.
AudiobookProduced ==
    /\ pc = "final" => mp3_audio.tag = "some"
    /\ pc = "done" => presented.audio.tag = "some"

SkippedSet == {skipped[k] : k \in 1..Len(skipped)}

\* C1 as stated: once convert_text_to_mp3_chunked is over, whatever way the
\* synthesis of a chunk failed, every chunk's synthesis was attempted and
\* handled, each failed chunk has its warning, and there is an audiobook.
C1_AnyFailureIsSkipped ==
    (pc \in {"final", "done"} /\ text_chunks # <<>>) =>
        /\ Len(results) = Len(text_chunks)
        /\ \A i \in 1..Len(results) : results[i] = None => i \in SkippedSet
        /\ AudiobookProduced

\* C1 as amended: a chunk whose synthesis returned no segment (its rate-limit
\* retries exhausted) has its warning, and the run went on: to the next
\* chunk, or after the last chunk to an audiobook.  When no synthesis raised,
\* every chunk's synthesis was attempted and there is an audiobook.  An
\* error the synthesiser re-raised ends the conversion: the later chunks are
\* not attempted and there is no audiobook.
C1_ExhaustionIsSkipped ==
    /\ \A i \in 1..Len(results) :
         results[i] = None =>
            /\ i \in SkippedSet
            /\ i < Len(text_chunks) => idx > i
            /\ (i = Len(text_chunks) /\ raised = "none") => AudiobookProduced
    /\ (pc \in {"final", "done"} /\ text_chunks # <<>> /\ raised = "none") =>
            /\ Len(results) = Len(text_chunks)
            /\ AudiobookProduced
    /\ raised # "none" =>
            /\ Len(results) < Len(text_chunks)
            /\ mp3_audio = None
            /\ presented = NotPresented

\* A run of three chunks or more whose second chunk was skipped and which
\* presented an audiobook with the audio of a later chunk.
C1_Witness ==
    /\ pc = "done"
    /\ Len(results) >= 3
    /\ results[2] = None
    /\ 2 \in SkippedSet
    /\ presented.audio.tag = "some"
    /\ 3 \in {presented.audio.data[k] : k \in 1..Len(presented.audio.data)}

\* C2: with k rate-limit answers (k = 0, 1, 2) and then audio, the
\* synthesiser has made k + 1 calls, has waited k times, 5 and then 10, and
\* has returned the segment; after k < 3 rate-limit answers alone it has
\* waited as often and is about to call again.
C2_RetryThenSuccess ==
    \A k \in 0..2 :
        /\ (pc = "returned"
            /\ responses = [j \in 1..(k + 1) |-> IF j <= k THEN RateLimited ELSE Audio]) =>
                /\ attempt = k
                /\ sleeps = SubSeq(<<5, 10>>, 1, k)
                /\ chunk_audio = Some(Segment(idx))
                /\ raised = "none"
        /\ (pc \in {"synth", "returned", "raised"}
            /\ responses = [j \in 1..k |-> RateLimited]) =>
                /\ pc = "synth"
                /\ attempt = k
                /\ sleeps = SubSeq(<<5, 10>>, 1, k)

\* Two rate-limit answers, then audio: three calls, waits of 5 and 10.
C2_Witness ==
    /\ pc = "returned"
    /\ responses = <<RateLimited, RateLimited, Audio>>
    /\ sleeps = <<5, 10>>
    /\ chunk_audio.tag = "some"

\* While the service answers rate-limit to every call, there are at most 3
\* calls for a chunk; fewer than 3 leave the synthesiser about to call again,
\* and after the 3rd it has returned, with no segment and no exception.
ThreeCallsThenNone ==
    OnlyRateLimited =>
        /\ Len(responses) <= 3
        /\ attempt = Len(responses)
        /\ (Len(responses) < 3 /\ pc \in {"synth", "returned", "raised"}) => pc = "synth"
        /\ Len(responses) = 3 =>
              /\ pc \in {"returned", "final", "done"}
              /\ chunk_audio = None
              /\ raised = "none"

\* C3: with rate-limit for every answer the synthesiser makes exactly 3
\* calls, never a 4th, and returns no segment and raises nothing; and a call
\* of _convert_chunk_to_audio always comes to its end.
C3_RetryExhaustion ==
    /\ []ThreeCallsThenNone
    /\ (pc = "synth") ~> (pc # "synth")

\* Three rate-limit answers: the call has returned None.
C3_Witness ==
    /\ pc = "returned"
    /\ responses = <<RateLimited, RateLimited, RateLimited>>
    /\ chunk_audio = None

\* The last answer of the service was an HTTP error other than 429.
LastIsOtherHTTPError ==
    /\ responses # <<>>
    /\ responses[Len(responses)].kind = "HTTPError"
    /\ responses[Len(responses)].status # 429

\* C4: an HTTP error other than 429 is followed by no wait (every wait
\* belongs to an earlier rate-limit answer) and by no further call, and the
\* error has left _convert_chunk_to_audio as an exception.
C4_OtherErrorIsRaised ==
    LastIsOtherHTTPError =>
        /\ pc \in {"raised", "final", "done"}
        /\ raised = "HTTPError"
        /\ chunk_audio = None
        /\ Len(sleeps) = Len(responses) - 1
        /\ \A j \in 1..(Len(responses) - 1) : responses[j] = RateLimited

\* The error comes on the third call, after two waits.
C4_Witness ==
    /\ pc = "raised"
    /\ LastIsOtherHTTPError
    /\ Len(responses) = 3
    /\ sleeps = <<5, 10>>

\* The segments of the chunks 1..n that were synthesised, in chunk order.
RECURSIVE SegmentsInOrder(_, _)
SegmentsInOrder(res, n) ==
    IF n = 0 THEN <<>>
    ELSE SegmentsInOrder(res, n - 1) \o (IF res[n] = None THEN <<>> ELSE Segment(n))

\* C5: the chunks are synthesised one at a time in source order, and the
\* accumulated audio is the segments of the chunks synthesised so far, in
\* chunk order, with nothing for a skipped chunk; the stored audiobook is the
\* accumulated audio.
C5_AssemblyOrder ==
    /\ Len(results) <= Len(text_chunks)
    /\ pc = "synth" => idx = Len(results) + 1
    /\ pc = "returned" => idx = Len(results) + 1
    /\ \A i \in 1..Len(results) : results[i] \in {None, Some(Segment(i))}
    /\ combined_audio = SegmentsInOrder(results, Len(results))
    /\ (pc = "final" /\ chunk_size # 0 /\ raised = "none") => mp3_audio = Some(combined_audio)

\* Three chunks, the second skipped: the audiobook is segment 1, segment 3.
C5_Witness ==
    /\ pc = "final"
    /\ Len(text_chunks) = 3
    /\ results = <<Some(Segment(1)), None, Some(Segment(3))>>
    /\ mp3_audio = Some(Segment(1) \o Segment(3))

\* C6: every chunk the splitter returns has between 1 and max_chunk_size
\* characters.
C6_ChunkSizeBound ==
    pc = "chunked" =>
        \A k \in 1..Len(text_chunks) :
            Len(text_chunks[k]) >= 1 /\ Len(text_chunks[k]) <= chunk_size

\* A text of one line that is longer than the maximum and was cut up.
C6_Witness ==
    /\ pc = "chunked"
    /\ \A i \in 1..Len(all_text) : all_text[i] # NL
    /\ Len(Strip(all_text)) > chunk_size
    /\ Len(text_chunks) >= 2

WithoutNewlines(text) == SelectSeq(text, LAMBDA c : c # NL)

\* C7 as stated: the chunks, one after the other, are the input text but for
\* its paragraph separators.
C7_LosslessModuloSeparators ==
    pc = "chunked" => Concat(text_chunks) = WithoutNewlines(all_text)

\* Position i of the text lies in a line, not before the line's first and
\* not behind its last character that is no whitespace.
InsideLine(text, i) ==
    /\ text[i] # NL
    /\ \E j \in 1..i, k \in i..Len(text) :
         /\ text[j] \notin Whitespace
         /\ text[k] \notin Whitespace
         /\ \A m \in j..k : text[m] # NL

\* The characters of the text at the positions inside a line, from i on.
RECURSIVE LinesTrimmed(_, _)
LinesTrimmed(text, i) ==
    IF i > Len(text) THEN <<>>
    ELSE (IF InsideLine(text, i) THEN <<text[i]>> ELSE <<>>) \o LinesTrimmed(text, i + 1)

\* C7 as amended: the chunks, one after the other, are the input text but for
\* its newlines and the whitespace at the two ends of each line; what is
\* left is neither duplicated nor reordered.
C7_LosslessModuloTrimming ==
    pc = "chunked" => Concat(text_chunks) = LinesTrimmed(all_text, 1)

\* A text of one line with whitespace at an end, cut up into several chunks.
C7_Witness ==
    /\ pc = "chunked"
    /\ \A i \in 1..Len(all_text) : all_text[i] # NL
    /\ Len(text_chunks) >= 2
    /\ Len(Concat(text_chunks)) < Len(all_text)

\* A run of 3 or more dashes, equals signs or asterisks.
HasDecorRun(text) == \E i \in 1..Len(text) : RunLen(text, i, {"-", "=", "*"}) >= 3

\* Two newlines with nothing but whitespace between them.
HasBlankLine(text) ==
    \E i \in 1..Len(text), j \in 1..Len(text) :
        /\ i < j
        /\ text[i] = NL
        /\ text[j] = NL
        /\ \A k \in (i + 1)..(j - 1) : text[k] \in Whitespace

\* C8 as stated: the text handed to the splitter has no decorative run and
\* no blank line, whatever the input mode.
C8_NarrationTextClean ==
    chunk_size # 0 => ~HasDecorRun(all_text) /\ ~HasBlankLine(all_text)

\* C8 as amended: in the upload and the URL mode, the text handed to the
\* splitter has no decorative run and no blank line.
C8_SingleDocumentTextClean ==
    (chunk_size # 0 /\ input_method \in {"Upload a File", "From a URL"}) =>
        ~HasDecorRun(all_text) /\ ~HasBlankLine(all_text)

\* An uploaded document whose extracted text has a decorative run or a blank
\* line, and whose cleaned text went to the splitter.
C8_Witness ==
    /\ input_method = "Upload a File"
    /\ chunk_size # 0
    /\ pc = "synth"
    /\ HasDecorRun(raw_text) \/ HasBlankLine(raw_text)

\* Every document of the run was extracted to nothing but whitespace.
NothingExtracted == docs # <<>> /\ \A k \in 1..Len(docs) : docs[k]

\* C9: with nothing extracted, the run makes no call of the voice service,
\* stores and presents no audiobook, and has reported that there is no text.
C9_EmptyInputNoSynthesis ==
    NothingExtracted =>
        /\ chunk_size = 0
        /\ responses = <<>>
        /\ results = <<>>
        /\ mp3_audio = None
        /\ presented = NotPresented
        /\ pc \in {"final", "done"}
        /\ "Could not extract any text from the document." \in errors

====
